---- MODULE Spec2Model ----
(***************************************************************************)
(* Model of rush/mini-project/checkmate.py: the chess board, the per-piece *)
(* movement rules, ChessBoard.move, ChessBoard.parse_move and the main     *)
(* loop.  Squares are Python tuples (x, y) = (row, column); they are       *)
(* modelled as <<x, y>>.  Strings are sequences of code points.  Also the   *)
(* function unique_elements of cell05/ex03/play_with_array=+2.py.          *)
(***************************************************************************)
EXTENDS Integers, Sequences, FiniteSets, TLC

VARIABLES board, turn, pc, moves, reads, last, call

vars == <<board, turn, pc, moves, reads, last, call>>

\* Number of lines the modelled session reads with input().
MaxReads == 2

\* The last file letter of the squares typed in: 104 is "h".
MaxFile == 104

\* Number of applied moves of a game played with squares of the grid.
MaxPlies == 3

\* The last column of the squares such a game is played with: 3 is file d.
MaxColumn == 3

\* Number of iterations of the while loop of Rook.is_valid_move followed
\* within one call.
MaxSteps == 8

\* Length of the lists given to unique_elements, and the largest of their
\* values (the smallest is -1).
MaxLen == 4

MaxValue == 1

----------------------------------------------------------------------------
\* Python values

\* A board cell holds a reference to a Piece object or None.  The Piece
\* objects are numbered 1..32 in the order create_board creates them;
\* None is 0.
None == 0

\* Marker for an IndexError raised by a list subscript.
IndexError == -1

abs(n) == IF n < 0 THEN -n ELSE n

\* The kinds and names of the two back rows, in the order of the list
\* literals of create_board.
BackKinds ==
    <<"Rook", "Knight", "Bishop", "Queen", "King", "Bishop", "Knight", "Rook">>

BlackNames == <<"r", "n", "b", "q", "k", "b", "n", "r">>

WhiteNames == <<"R", "N", "B", "Q", "K", "B", "N", "R">>

\* Piece.__init__(name, color) of the subclass kind.
Piece(kind, name, color) == [kind |-> kind, name |-> name, color |-> color]

\* The objects create_board creates: 1..8 the black back row, 9..16 the
\* black pawns, 17..24 the white pawns, 25..32 the white back row.  No
\* method assigns to name or color after __init__.
Pieces ==
    [id \in 1..32 |->
        IF id <= 8 THEN Piece(BackKinds[id], BlackNames[id], "black")
        ELSE IF id <= 16 THEN Piece("Pawn", "p", "black")
        ELSE IF id <= 24 THEN Piece("Pawn", "P", "white")
        ELSE Piece(BackKinds[id - 24], WhiteNames[id - 24], "white")]

\* Python list subscript on a list of length 8: -8..-1 address the list
\* from its end, anything outside -8..7 raises IndexError.
InIndex(i) == i \in -8..7

Norm(i) == IF i < 0 THEN i + 8 ELSE i

\* board[x][y]
Get(b, x, y) ==
    IF InIndex(x) /\ InIndex(y) THEN b[Norm(x)][Norm(y)] ELSE IndexError

PyBool(v) == IF v THEN "True" ELSE "False"

----------------------------------------------------------------------------
\* Piece movement rules: "True", "False" or "IndexError" (the exception
\* raised by a board subscript, in the order the code evaluates them).

\* The Pawn rule with the home row of White for both colours.
Pawn_is_valid_move_row6(self, start, end, b) ==
    LET x1 == start[1]
        y1 == start[2]
        x2 == end[1]
        y2 == end[2]
        direction == IF self.color = "white" THEN -1 ELSE 1
        dest == Get(b, x2, y2)
        mid == Get(b, x1 + direction, y2)
    IN  IF y1 = y2 /\ x2 - x1 = direction /\ dest = IndexError
          THEN "IndexError"
        ELSE IF y1 = y2 /\ x2 - x1 = direction /\ dest = None
          THEN "True"
        ELSE IF y1 = y2 /\ x2 - x1 = 2 * direction /\ dest = IndexError
          THEN "IndexError"
        ELSE IF y1 = y2 /\ x2 - x1 = 2 * direction /\ dest = None
                /\ mid = IndexError
          THEN "IndexError"
        ELSE IF y1 = y2 /\ x2 - x1 = 2 * direction /\ dest = None
                /\ mid = None
          THEN PyBool(x1 = 6)
        ELSE IF abs(y2 - y1) = 1 /\ x2 - x1 = direction /\ dest = IndexError
          THEN "IndexError"
        ELSE IF abs(y2 - y1) = 1 /\ x2 - x1 = direction /\ dest # None
          THEN PyBool(Pieces[dest].color # self.color)
        ELSE "False"

\* The Pawn rule allowing the two steps from every row.
Pawn_is_valid_move_anyrow(self, start, end, b) ==
    LET x1 == start[1]
        y1 == start[2]
        x2 == end[1]
        y2 == end[2]
        direction == IF self.color = "white" THEN -1 ELSE 1
        dest == Get(b, x2, y2)
        mid == Get(b, x1 + direction, y2)
    IN  IF y1 = y2 /\ x2 - x1 = direction /\ dest = IndexError
          THEN "IndexError"
        ELSE IF y1 = y2 /\ x2 - x1 = direction /\ dest = None
          THEN "True"
        ELSE IF y1 = y2 /\ x2 - x1 = 2 * direction /\ dest = IndexError
          THEN "IndexError"
        ELSE IF y1 = y2 /\ x2 - x1 = 2 * direction /\ dest = None
                /\ mid = IndexError
          THEN "IndexError"
        ELSE IF y1 = y2 /\ x2 - x1 = 2 * direction /\ dest = None
                /\ mid = None
          THEN "True"
        ELSE IF abs(y2 - y1) = 1 /\ x2 - x1 = direction /\ dest = IndexError
          THEN "IndexError"
        ELSE IF abs(y2 - y1) = 1 /\ x2 - x1 = direction /\ dest # None
          THEN PyBool(Pieces[dest].color # self.color)
        ELSE "False"

\* The Pawn rule without the test of the intermediate square.
Pawn_is_valid_move_jump(self, start, end, b) ==
    LET x1 == start[1]
        y1 == start[2]
        x2 == end[1]
        y2 == end[2]
        direction == IF self.color = "white" THEN -1 ELSE 1
        dest == Get(b, x2, y2)
    IN  IF y1 = y2 /\ x2 - x1 = direction /\ dest = IndexError
          THEN "IndexError"
        ELSE IF y1 = y2 /\ x2 - x1 = direction /\ dest = None
          THEN "True"
        ELSE IF y1 = y2 /\ x2 - x1 = 2 * direction /\ dest = IndexError
          THEN "IndexError"
        ELSE IF y1 = y2 /\ x2 - x1 = 2 * direction /\ dest = None
          THEN PyBool(IF self.color = "white" THEN x1 = 6 ELSE x1 = 1)
        ELSE IF abs(y2 - y1) = 1 /\ x2 - x1 = direction /\ dest = IndexError
          THEN "IndexError"
        ELSE IF abs(y2 - y1) = 1 /\ x2 - x1 = direction /\ dest # None
          THEN PyBool(Pieces[dest].color # self.color)
        ELSE "False"

Pawn_is_valid_move(self, start, end, b) ==
    LET x1 == start[1]
        y1 == start[2]
        x2 == end[1]
        y2 == end[2]
        direction == IF self.color = "white" THEN -1 ELSE 1
        dest == Get(b, x2, y2)
        mid == Get(b, x1 + direction, y2)
    IN  IF y1 = y2 /\ x2 - x1 = direction /\ dest = IndexError
          THEN "IndexError"
        ELSE IF y1 = y2 /\ x2 - x1 = direction /\ dest = None
          THEN "True"
        ELSE IF y1 = y2 /\ x2 - x1 = 2 * direction /\ dest = IndexError
          THEN "IndexError"
        ELSE IF y1 = y2 /\ x2 - x1 = 2 * direction /\ dest = None
                /\ mid = IndexError
          THEN "IndexError"
        ELSE IF y1 = y2 /\ x2 - x1 = 2 * direction /\ dest = None
                /\ mid = None
          THEN PyBool(IF self.color = "white" THEN x1 = 6 ELSE x1 = 1)
        ELSE IF abs(y2 - y1) = 1 /\ x2 - x1 = direction /\ dest = IndexError
          THEN "IndexError"
        ELSE IF abs(y2 - y1) = 1 /\ x2 - x1 = direction /\ dest # None
          THEN PyBool(Pieces[dest].color # self.color)
        ELSE "False"

\* The while loop of Rook.is_valid_move from the square (x, y) on:
\* "clear" when it reaches (x2, y2), "blocked" on an occupied square.
RECURSIVE RookPath(_, _, _, _, _, _, _)
RookPath(b, x, y, x2, y2, step_x, step_y) ==
    IF <<x, y>> = <<x2, y2>> THEN "clear"
    ELSE LET c == Get(b, x, y)
         IN  IF c = IndexError THEN "IndexError"
             ELSE IF c # None THEN "blocked"
             ELSE RookPath(b, x + step_x, y + step_y, x2, y2, step_x, step_y)

\* The final return of Rook and Bishop: empty or opponent's piece.
DestEmptyOrOpponent(self, end, b) ==
    LET dest == Get(b, end[1], end[2])
    IN  IF dest = IndexError THEN "IndexError"
        ELSE PyBool(dest = None \/ Pieces[dest].color # self.color)

Rook_is_valid_move(self, start, end, b) ==
    LET x1 == start[1]
        y1 == start[2]
        x2 == end[1]
        y2 == end[2]
        step_x == IF x2 > x1 THEN 1 ELSE IF x2 < x1 THEN -1 ELSE 0
        step_y == IF y2 > y1 THEN 1 ELSE IF y2 < y1 THEN -1 ELSE 0
    IN  IF x1 # x2 /\ y1 # y2 THEN "False"
        ELSE LET path == RookPath(b, x1 + step_x, y1 + step_y, x2, y2,
                                  step_x, step_y)
             IN  IF path = "IndexError" THEN "IndexError"
                 ELSE IF path = "blocked" THEN "False"
                 ELSE DestEmptyOrOpponent(self, end, b)

Knight_is_valid_move(self, start, end, b) ==
    LET dx == abs(end[1] - start[1])
        dy == abs(end[2] - start[2])
    IN  PyBool(<<dx, dy>> \in {<<2, 1>>, <<1, 2>>})

\* The for loop of Bishop.is_valid_move finding no square taken.
BishopPath_open(b, x1, y1, step_x, step_y, i, n) == "clear"

\* The for loop of Bishop.is_valid_move from index i on.
RECURSIVE BishopPath(_, _, _, _, _, _, _)
BishopPath(b, x1, y1, step_x, step_y, i, n) ==
    IF i >= n THEN "clear"
    ELSE LET c == Get(b, x1 + i * step_x, y1 + i * step_y)
         IN  IF c = IndexError THEN "IndexError"
             ELSE IF c # None THEN "blocked"
             ELSE BishopPath(b, x1, y1, step_x, step_y, i + 1, n)

Bishop_is_valid_move(self, start, end, b) ==
    LET x1 == start[1]
        y1 == start[2]
        x2 == end[1]
        y2 == end[2]
        step_x == IF x2 > x1 THEN 1 ELSE -1
        step_y == IF y2 > y1 THEN 1 ELSE -1
    IN  IF abs(x2 - x1) # abs(y2 - y1) THEN "False"
        ELSE LET path == BishopPath(b, x1, y1, step_x, step_y, 1,
                                    abs(x2 - x1))
             IN  IF path = "IndexError" THEN "IndexError"
                 ELSE IF path = "blocked" THEN "False"
                 ELSE DestEmptyOrOpponent(self, end, b)

\* Both rules are evaluated before the "or"; an exception of either
\* propagates, the Rook's first.
Queen_is_valid_move(self, start, end, b) ==
    LET rook_like ==
            Rook_is_valid_move(Piece("Rook", self.name, self.color),
                               start, end, b)
        bishop_like ==
            Bishop_is_valid_move(Piece("Bishop", self.name, self.color),
                                 start, end, b)
    IN  IF rook_like = "IndexError" THEN "IndexError"
        ELSE IF bishop_like = "IndexError" THEN "IndexError"
        ELSE PyBool(rook_like = "True" \/ bishop_like = "True")

King_is_valid_move(self, start, end, b) ==
    PyBool(abs(end[1] - start[1]) <= 1 /\ abs(end[2] - start[2]) <= 1)

\* piece.is_valid_move(start, end, board): dispatch on the subclass.
is_valid_move(self, start, end, b) ==
    CASE self.kind = "Pawn" -> Pawn_is_valid_move(self, start, end, b)
      [] self.kind = "Rook" -> Rook_is_valid_move(self, start, end, b)
      [] self.kind = "Knight" -> Knight_is_valid_move(self, start, end, b)
      [] self.kind = "Bishop" -> Bishop_is_valid_move(self, start, end, b)
      [] self.kind = "Queen" -> Queen_is_valid_move(self, start, end, b)
      [] self.kind = "King" -> King_is_valid_move(self, start, end, b)

----------------------------------------------------------------------------
\* ChessBoard

\* create_board with the white King and Queen in each other's place.
create_board_king_queen ==
    [x \in 0..7 |->
        [y \in 0..7 |->
            CASE x = 0 -> 1 + y
              [] x = 1 -> 9 + y
              [] x = 6 -> 17 + y
              [] x = 7 -> IF y = 3 THEN 29 ELSE IF y = 4 THEN 28 ELSE 25 + y
              [] OTHER -> None]]

create_board ==
    [x \in 0..7 |->
        [y \in 0..7 |->
            CASE x = 0 -> 1 + y
              [] x = 1 -> 9 + y
              [] x = 6 -> 17 + y
              [] x = 7 -> 25 + y
              [] OTHER -> None]]

\* ChessBoard.__init__
ChessBoard == [board |-> create_board, turn |-> "white"]

\* True when a coordinate of start or end lies outside the 8x8 grid.
OutOfGrid(start, end) ==
    \/ start[1] \notin 0..7
    \/ start[2] \notin 0..7
    \/ end[1] \notin 0..7
    \/ end[2] \notin 0..7

\* None where a tuple (x, y) is expected; it is falsy, as is ().
NoSquare == <<>>

\* A slip in the conditional expression of line 141: both arms "black".
SwitchTurn_stuck(t) == "black"

\* self.turn = "black" if self.turn == "white" else "white"
SwitchTurn(t) == IF t = "white" THEN "black" ELSE "white"

\* The condition of move without its colour test.
OnTurn_any(piece, t) == TRUE

\* piece.color == self.turn
OnTurn(piece, t) == Pieces[piece].color = t

\* move clearing the start square before it tests the move: a rejected
\* call of a piece on turn has emptied its square.
move_clears_first(b, t, start, end) ==
    LET x1 == start[1]
        y1 == start[2]
        x2 == end[1]
        y2 == end[2]
        piece == Get(b, x1, y1)
        Left(outcome) == [board |-> b, turn |-> t, outcome |-> outcome]
        cleared == [b EXCEPT ![Norm(x1)][Norm(y1)] = None]
    IN  IF piece = IndexError THEN Left("IndexError")
        ELSE IF piece = None \/ ~OnTurn(piece, t) THEN Left("Rejected")
        ELSE LET valid == is_valid_move(Pieces[piece], start, end, b)
             IN  IF valid = "IndexError" THEN Left("IndexError")
                 ELSE IF valid = "False"
                   THEN [board |-> cleared, turn |-> t, outcome |-> "Rejected"]
                 ELSE IF Get(b, x2, y2) = IndexError THEN Left("IndexError")
                 ELSE [board |-> [cleared EXCEPT ![Norm(x2)][Norm(y2)] = piece],
                       turn |-> SwitchTurn(t), outcome |-> "Applied"]

\* move leaving the piece on its start square as well.
move_copies(b, t, start, end) ==
    LET x1 == start[1]
        y1 == start[2]
        x2 == end[1]
        y2 == end[2]
        piece == Get(b, x1, y1)
        Left(outcome) == [board |-> b, turn |-> t, outcome |-> outcome]
    IN  IF piece = IndexError THEN Left("IndexError")
        ELSE IF piece = None \/ ~OnTurn(piece, t) THEN Left("Rejected")
        ELSE LET valid == is_valid_move(Pieces[piece], start, end, b)
             IN  IF valid = "IndexError" THEN Left("IndexError")
                 ELSE IF valid = "False" THEN Left("Rejected")
                 ELSE IF Get(b, x2, y2) = IndexError THEN Left("IndexError")
                 ELSE [board |-> [b EXCEPT ![Norm(x2)][Norm(y2)] = piece],
                       turn |-> SwitchTurn(t), outcome |-> "Applied"]

\* ChessBoard.move(start, end) on a board b with turn t: the board and the
\* turn it leaves and the way it was left: "Applied" (the if branch),
\* "Rejected" (the else branch, which prints "Invalid move!") or
\* "IndexError" (a subscript raised; nothing was assigned before it).
move(b, t, start, end) ==
    LET x1 == start[1]
        y1 == start[2]
        x2 == end[1]
        y2 == end[2]
        piece == Get(b, x1, y1)
        Left(outcome) == [board |-> b, turn |-> t, outcome |-> outcome]
    IN  IF piece = IndexError THEN Left("IndexError")
        ELSE IF piece = None \/ ~OnTurn(piece, t) THEN Left("Rejected")
        ELSE LET valid == is_valid_move(Pieces[piece], start, end, b)
             IN  IF valid = "IndexError" THEN Left("IndexError")
                 ELSE IF valid = "False" THEN Left("Rejected")
                 ELSE IF Get(b, x2, y2) = IndexError THEN Left("IndexError")
                 ELSE LET b1 == [b EXCEPT ![Norm(x2)][Norm(y2)] = piece]
                          b2 == [b1 EXCEPT ![Norm(x1)][Norm(y1)] = None]
                      IN  [board |-> b2, turn |-> SwitchTurn(t),
                           outcome |-> "Applied"]

----------------------------------------------------------------------------
\* Strings: sequences of code points.

IsSpace(c) == c \in {9, 32}

\* str.lower() on the characters A-Z.
lower(s) == [i \in 1..Len(s) |-> IF s[i] \in 65..90 THEN s[i] + 32 ELSE s[i]]

\* str.split(): the maximal runs of non-whitespace characters.
RECURSIVE SplitFrom(_, _, _, _)
SplitFrom(s, i, cur, toks) ==
    LET closed == IF cur = <<>> THEN toks ELSE Append(toks, cur)
    IN  IF i > Len(s) THEN closed
        ELSE IF IsSpace(s[i]) THEN SplitFrom(s, i + 1, <<>>, closed)
        ELSE SplitFrom(s, i + 1, Append(cur, s[i]), toks)

split(s) == SplitFrom(s, 1, <<>>, <<>>)

\* 8 - int(pos[1]), ord(pos[0]) - ord('a'); "error" for the IndexError
\* of pos[1] and the ValueError of int().
ParseSquare(pos) ==
    IF Len(pos) < 2 THEN "error"
    ELSE IF pos[2] \notin 48..57 THEN "error"
    ELSE <<8 - (pos[2] - 48), pos[1] - 97>>

NoneNone == <<NoSquare, NoSquare>>

\* ChessBoard.parse_move(move): (start, end), or (None, None) after
\* printing "Invalid input!".
parse_move(mv) ==
    LET toks == split(mv)
    IN  IF Len(toks) # 2 THEN NoneNone
        ELSE IF ParseSquare(toks[1]) = "error" THEN NoneNone
        ELSE IF ParseSquare(toks[2]) = "error" THEN NoneNone
        ELSE <<ParseSquare(toks[1]), ParseSquare(toks[2])>>

----------------------------------------------------------------------------
\* The lines read by input()

\* File characters a..MaxFile with '`' before a and i after h, rank
\* characters 0-9: squares of the grid and their neighbours one off the
\* grid on each side.
FileChars == {96} \cup (97..MaxFile) \cup {105}

RankChars == 48..57

SquareTokens == {<<f, r>> : f \in FileChars, r \in RankChars}

MoveLines == {t1 \o <<32>> \o t2 : t1 \in SquareTokens, t2 \in SquareTokens}

STOP == <<115, 116, 111, 112>>

RESET == <<114, 101, 115, 101, 116>>

\* "Stop", " stop", "", "e2", "e", "e2 e4 e5", "e e4", "ex e4", "e2 e",
\* "e2x  e4y", "E2 E4", "Reset"
OtherLines ==
    {STOP, RESET, <<83, 116, 111, 112>>, <<32>> \o STOP, <<>>,
     <<101, 50>>, <<101>>, <<101, 50, 32, 101, 52, 32, 101, 53>>,
     <<101, 32, 101, 52>>, <<101, 120, 32, 101, 52>>, <<101, 50, 32, 101>>,
     <<101, 50, 120, 32, 32, 101, 52, 121>>, <<69, 50, 32, 69, 52>>,
     <<82, 101, 115, 101, 116>>}

Lines == MoveLines \cup OtherLines

\* move = input(...).lower() for every line, and what main does with it.
Inputs == {lower(line) : line \in Lines}

\* start, end = board.parse_move(move) for the other inputs.
Parsed == {parse_move(mv) : mv \in Inputs \ {STOP, RESET}}

\* The results that fail "if start and end": move is not called.
NotMoved == {se : se \in {m \in Parsed : ~(m[1] # NoSquare /\ m[2] # NoSquare)}}

\* "if start and end": the (start, end) pairs main passes to board.move.
MoveInputs == {se : se \in {m \in Parsed : m[1] # NoSquare /\ m[2] # NoSquare}}

Starts == {se[1] : se \in MoveInputs}

Ends == {se[2] : se \in MoveInputs}

OnGrid(sq) == sq[1] \in 0..7 /\ sq[2] \in 0..7

\* One end on the grid and one off it.
SomeEnds ==
    {CHOOSE e \in Ends : OnGrid(e), CHOOSE e \in Ends : ~OnGrid(e)}

\* "piece = self.board[x1][y1]" is an object: the first conjunct of the
\* condition of move is true.
PieceAt(b, start) == Get(b, start[1], start[2]) \notin {IndexError, None}

----------------------------------------------------------------------------
\* main

\* No function is called on its own while main runs.
Idle == [fn |-> "none"]

\* moves counts the applied moves on the current ChessBoard and reads the
\* lines read; neither is program state.  last tells what the last
\* iteration of the loop of main did (not program state either):
\* outcome is the branch of main, for a call of move the way move was
\* left; prior the number of applied moves before it.  For a call of
\* move, src is the colour of the piece on start before the call ("none"
\* for None, "IndexError" when the subscript raises) and oob tells
\* whether a coordinate was off the grid; for an applied one, start, end,
\* the piece moved and the content of end before the call.
Iteration(outcome, prior, src, oob, start, end, piece, captured) ==
    [outcome |-> outcome, prior |-> prior, src |-> src, oob |-> oob,
     start |-> start, end |-> end, piece |-> piece, captured |-> captured]

NoCall(outcome, prior) ==
    Iteration(outcome, prior, "none", FALSE, NoSquare, NoSquare, None, None)

ColorAt(b, sq) ==
    LET piece == Get(b, sq[1], sq[2])
    IN  IF piece = IndexError THEN "IndexError"
        ELSE IF piece = None THEN "none"
        ELSE Pieces[piece].color

Init ==
    /\ board = ChessBoard.board
    /\ turn = ChessBoard.turn
    /\ pc = "loop"
    /\ moves = 0
    /\ reads = 0
    /\ last = NoCall("none", 0)
    /\ call = Idle

\* move == "stop": break
MainStop ==
    /\ pc = "loop"
    /\ reads < MaxReads
    /\ STOP \in Inputs
    /\ pc' = "stopped"
    /\ reads' = reads + 1
    /\ last' = NoCall("Stop", moves)
    /\ UNCHANGED <<board, turn, moves, call>>

\* move == "reset": board = ChessBoard()
MainReset ==
    /\ pc = "loop"
    /\ reads < MaxReads
    /\ RESET \in Inputs
    /\ reads' = reads + 1
    /\ board' = ChessBoard.board
    /\ turn' = ChessBoard.turn
    /\ moves' = 0
    /\ last' = NoCall("Reset", moves)
    /\ UNCHANGED <<pc, call>>

\* parse_move returned (None, None): move is not called.
MainInvalidInput ==
    /\ pc = "loop"
    /\ reads < MaxReads
    /\ NotMoved # {}
    /\ reads' = reads + 1
    /\ last' = NoCall("InvalidInput", moves)
    /\ UNCHANGED <<board, turn, pc, moves, call>>

\* parse_move returned two tuples, both truthy: board.move(start, end).
\* An IndexError is not caught and ends the program.  Where start holds
\* no piece (or its subscript raises), move is left before anything uses
\* end: those calls are taken with the ends of SomeEnds only, all others
\* with every end of the inputs.
MainMove ==
    /\ pc = "loop"
    /\ reads < MaxReads
    /\ reads' = reads + 1
    /\ UNCHANGED call
    /\ \E start \in Starts :
       \E end \in IF PieceAt(board, start) THEN Ends ELSE SomeEnds :
       \E r \in {move(board, turn, start, end)} :
          /\ <<start, end>> \in MoveInputs
          /\ board' = r.board
          /\ turn' = r.turn
          /\ moves' = IF r.outcome = "Applied" THEN moves + 1 ELSE moves
          /\ pc' = IF r.outcome = "IndexError" THEN "crashed" ELSE "loop"
          /\ last' = IF r.outcome = "Applied"
                       THEN Iteration("Applied", moves, ColorAt(board, start),
                                      OutOfGrid(start, end), start, end,
                                      Get(board, start[1], start[2]),
                                      Get(board, end[1], end[2]))
                       ELSE Iteration(r.outcome, moves, ColorAt(board, start),
                                      OutOfGrid(start, end), NoSquare,
                                      NoSquare, None, None)

Next == MainStop \/ MainReset \/ MainInvalidInput \/ MainMove

Spec == Init /\ [][Next]_vars

----------------------------------------------------------------------------
\* board.move called with squares of the grid only

PlaySquares == (0..7) \X (0..MaxColumn)

\* board.move(start, end) on the ChessBoard of main.  A call that is not
\* applied leaves the board and the turn; last keeps the applied call.
Attempt ==
    /\ pc = "loop"
    /\ moves < MaxPlies
    /\ \E start \in PlaySquares, end \in PlaySquares :
       \E r \in {move(board, turn, start, end)} :
          /\ board' = r.board
          /\ turn' = r.turn
          /\ moves' = IF r.outcome = "Applied" THEN moves + 1 ELSE moves
          /\ pc' = IF r.outcome = "IndexError" THEN "crashed" ELSE "loop"
          /\ last' = IF r.outcome = "Applied"
                       THEN Iteration("Applied", moves, ColorAt(board, start),
                                      OutOfGrid(start, end), start, end,
                                      Get(board, start[1], start[2]),
                                      Get(board, end[1], end[2]))
                       ELSE last
    /\ UNCHANGED <<reads, call>>

PlayNext == Attempt

PlaySpec == Init /\ [][PlayNext]_vars

----------------------------------------------------------------------------
\* The piece rules called on their own

\* The squares with both coordinates in [0,7].
Grid == (0..7) \X (0..7)

Colors == {"white", "black"}

\* board.move called with the pairs of a game, one after the other, on the
\* ChessBoard cb.
RECURSIVE Played(_, _)
Played(cb, game) ==
    IF game = <<>> THEN cb
    ELSE LET r == move(cb.board, cb.turn, game[1][1], game[1][2])
         IN  Played([board |-> r.board, turn |-> r.turn], Tail(game))

\* Games typed in before a rule is looked at: none; e2 e4, d7 d5; a2 a4,
\* a7 a5; b1 c3, g8 f6; h2 h3, a7 a5, h3 h4, a5 a4; e2 e4, e7 e5, d2 d4,
\* a7 a6.
Games ==
    {<<>>,
     <<<<<<6, 4>>, <<4, 4>>>>, <<<<1, 3>>, <<3, 3>>>>>>,
     <<<<<<6, 0>>, <<4, 0>>>>, <<<<1, 0>>, <<3, 0>>>>>>,
     <<<<<<7, 1>>, <<5, 2>>>>, <<<<0, 6>>, <<2, 5>>>>>>,
     <<<<<<6, 7>>, <<5, 7>>>>, <<<<1, 0>>, <<3, 0>>>>,
       <<<<5, 7>>, <<4, 7>>>>, <<<<3, 0>>, <<4, 0>>>>>>,
     <<<<<<6, 4>>, <<4, 4>>>>, <<<<1, 4>>, <<3, 4>>>>,
       <<<<6, 3>>, <<4, 3>>>>, <<<<1, 0>>, <<2, 0>>>>>>}

\* The ChessBoards these games leave.
Positions == {Played(ChessBoard, game) : game \in Games}

\* Pawn(name, color)
Pawn(color) == Piece("Pawn", IF color = "white" THEN "P" ELSE "p", color)

\* The board of one of the positions and the arguments of the call to
\* come: the colour of self and two squares of the grid.
RuleInit ==
    /\ \E cb \in Positions : board = cb.board /\ turn = cb.turn
    /\ pc = "loop"
    /\ moves = 0
    /\ reads = 0
    /\ last = NoCall("none", 0)
    /\ \E color \in Colors, start \in Grid, end \in Grid :
          call = [fn |-> "none", color |-> color, start |-> start,
                  end |-> end]

\* Pawn(...).is_valid_move(start, end, board)
PawnCall ==
    /\ call.fn = "none"
    /\ call' = [fn |-> "Pawn.is_valid_move", color |-> call.color,
                start |-> call.start, end |-> call.end,
                result |-> Pawn_is_valid_move(Pawn(call.color), call.start,
                                              call.end, board)]
    /\ UNCHANGED <<board, turn, pc, moves, reads, last>>

\* step_x, step_y of Rook.is_valid_move, standing still.
RookStep_still(from, to) == 0

\* step_x = 1 if x2 > x1 else -1 if x2 < x1 else 0, and step_y alike.
RookStep(from, to) == IF to > from THEN 1 ELSE IF to < from THEN -1 ELSE 0

\* Rook.is_valid_move up to its while loop: the return of line 41, or x, y
\* set to the first square of the path; steps counts the iterations of
\* the loop.
RookCall ==
    /\ call.fn = "none"
    /\ LET start == call.start
           end == call.end
           step_x == RookStep(start[1], end[1])
           step_y == RookStep(start[2], end[2])
       IN  call' = [fn |-> "Rook.is_valid_move", color |-> call.color,
                    start |-> start, end |-> end,
                    step_x |-> step_x, step_y |-> step_y,
                    x |-> start[1] + step_x, y |-> start[2] + step_y,
                    steps |-> 0,
                    result |-> IF start[1] # end[1] /\ start[2] # end[2]
                                 THEN "False" ELSE "running"]
    /\ UNCHANGED <<board, turn, pc, moves, reads, last>>

\* One iteration of "while (x, y) != (x2, y2)".
RookLoop ==
    /\ call.fn = "Rook.is_valid_move"
    /\ call.result = "running"
    /\ <<call.x, call.y>> # call.end
    /\ call.steps < MaxSteps
    /\ call' = IF Get(board, call.x, call.y) = IndexError
                 THEN [call EXCEPT !.result = "IndexError",
                                   !.steps = call.steps + 1]
               ELSE IF Get(board, call.x, call.y) # None
                 THEN [call EXCEPT !.result = "False",
                                   !.steps = call.steps + 1]
               ELSE [call EXCEPT !.x = call.x + call.step_x,
                                 !.y = call.y + call.step_y,
                                 !.steps = call.steps + 1]
    /\ UNCHANGED <<board, turn, pc, moves, reads, last>>

\* The loop is left with (x, y) == (x2, y2): the return of line 55.
RookReturn ==
    /\ call.fn = "Rook.is_valid_move"
    /\ call.result = "running"
    /\ <<call.x, call.y>> = call.end
    /\ call' = [call EXCEPT !.result =
                    DestEmptyOrOpponent(Piece("Rook", "R", call.color),
                                        call.end, board)]
    /\ UNCHANGED <<board, turn, pc, moves, reads, last>>

\* The name create_board gives a piece of the kind and colour.
NameOf(kind, color) ==
    LET i == CHOOSE j \in 1..4 : BackKinds[j + 1] = kind
    IN  IF color = "white" THEN WhiteNames[i + 1] ELSE BlackNames[i + 1]

\* is_valid_move of a Knight, Bishop, Queen or King of either colour.
PieceCall ==
    /\ call.fn = "none"
    /\ \E kind \in {"Knight", "Bishop", "Queen", "King"} :
          call' = [fn |-> "is_valid_move", kind |-> kind,
                   color |-> call.color, start |-> call.start,
                   end |-> call.end,
                   result |-> is_valid_move(
                                 Piece(kind, NameOf(kind, call.color),
                                       call.color),
                                 call.start, call.end, board)]
    /\ UNCHANGED <<board, turn, pc, moves, reads, last>>

RuleNext == PawnCall \/ RookCall \/ RookLoop \/ RookReturn \/ PieceCall

RuleSpec == RuleInit /\ [][RuleNext]_vars

\* A call that has begun goes on: nothing else runs in the program.
RuleFairSpec == RuleSpec /\ WF_vars(RuleNext)

----------------------------------------------------------------------------
\* cell05/ex03/play_with_array=+2.py: unique_elements

Values == -1..MaxValue

\* The lists of at most MaxLen values.
Arrays == UNION {[1..n -> Values] : n \in 0..MaxLen}

\* The for loop of unique_elements from the element i of arr on, with the
\* set seen and the list unique built so far; the list arr is only read.
RECURSIVE UniqueFrom(_, _, _, _)
UniqueFrom(arr, i, seen, unique) ==
    IF i > Len(arr) THEN [arr |-> arr, unique |-> unique]
    ELSE IF arr[i] \notin seen
      THEN UniqueFrom(arr, i + 1, seen \cup {arr[i]}, Append(unique, arr[i]))
    ELSE UniqueFrom(arr, i + 1, seen, unique)

\* unique_elements returning its argument.
unique_elements_all(arr) == [arr |-> arr, unique |-> arr]

\* unique_elements(arr): the list it returns and the content of arr when
\* it returns.
unique_elements(arr) == UniqueFrom(arr, 1, {}, <<>>)

\* A list to call unique_elements with; the chess program is at rest.
UniqueInit ==
    /\ board = ChessBoard.board
    /\ turn = ChessBoard.turn
    /\ pc = "loop"
    /\ moves = 0
    /\ reads = 0
    /\ last = NoCall("none", 0)
    /\ \E arr \in Arrays : call = [fn |-> "none", arr |-> arr]

\* unique_array = unique_elements(original_array): given is the list as
\* it was passed.
UniqueCall ==
    /\ call.fn = "none"
    /\ \E r \in {unique_elements(call.arr)} :
          call' = [fn |-> "unique_elements", given |-> call.arr,
                   arr |-> r.arr, unique |-> r.unique, again |-> FALSE]
    /\ UNCHANGED <<board, turn, pc, moves, reads, last>>

\* unique_elements called with the list it returned.
UniqueAgain ==
    /\ call.fn = "unique_elements"
    /\ ~call.again
    /\ \E r \in {unique_elements(call.unique)} :
          call' = [fn |-> "unique_elements", given |-> call.unique,
                   arr |-> r.arr, unique |-> r.unique, again |-> TRUE]
    /\ UNCHANGED <<board, turn, pc, moves, reads, last>>

UniqueNext == UniqueCall \/ UniqueAgain

UniqueSpec == UniqueInit /\ [][UniqueNext]_vars

----------------------------------------------------------------------------
\* Properties

Calls == {"Applied", "Rejected", "IndexError"}

Opponent(t) == IF t = "white" THEN "black" ELSE "white"

PieceCount(b) == Cardinality({sq \in (0..7) \X (0..7) : b[sq[1]][sq[2]] # None})

\* C1: counted from a fresh ChessBoard, the turn is white after an even
\* number of applied moves and black after an odd number; calls of move
\* that are not applied do not count, so they leave the turn as it was.
TurnAlternates == turn = IF moves % 2 = 0 THEN "white" ELSE "black"

\* A rejected call after one applied move, with Black still to move.
TurnAlternatesWitness ==
    /\ moves = 1
    /\ last.outcome = "Rejected"
    /\ last.prior = 1
    /\ turn = "black"

\* C2: a rejected call of move leaves all 64 cells and the turn as they
\* were (so repeating it changes nothing either).
RejectedChangesNothing ==
    [][last'.outcome = "Rejected" => (board' = board /\ turn' = turn)]_vars

\* A call rejected by the rule of a piece that is on turn, on a board that
\* is no longer the initial one.
RejectedChangesNothingWitness ==
    /\ last.outcome = "Rejected"
    /\ last.src = turn
    /\ ~last.oob
    /\ moves = 1

\* C3: after an applied move with start and end on the grid, end holds the
\* piece that moved and start is empty.
MovedPieceOnEnd ==
    (last.outcome = "Applied" /\ ~last.oob) =>
        /\ Get(board, last.end[1], last.end[2]) = last.piece
        /\ Get(board, last.start[1], last.start[2]) = None

\* C4: a call of move with start and end on the grid never raises the
\* number of pieces; an applied one lowers it by exactly 1 if and only if
\* end held a piece of the opposing colour, and any other call leaves it.
PieceCountConserved ==
    [][(last'.outcome \in Calls /\ ~last'.oob) =>
          /\ PieceCount(board') <= PieceCount(board)
          /\ last'.outcome = "Applied" =>
                ((PieceCount(board') = PieceCount(board) - 1) <=>
                    /\ last'.captured # None
                    /\ Pieces[last'.captured].color
                          = Opponent(Pieces[last'.piece].color))
          /\ last'.outcome # "Applied" =>
                PieceCount(board') = PieceCount(board)]_vars

\* C5: no applied move (start and end on the grid, start other than end)
\* lands on a piece of the colour that moved, for any kind of piece; so
\* the White King move (7,4)->(6,4) on the initial board is not applied.
NoSelfCapture ==
    (last.outcome = "Applied" /\ ~last.oob /\ last.start # last.end
        /\ last.captured # None) =>
            Pieces[last.captured].color # Pieces[last.piece].color

\* C6: a call of move with a coordinate off the grid is answered with the
\* error (the IndexError of the subscript is the only explicit error the
\* program has); it is never rejected or applied through an aliased cell.
OutOfBoundsIsError == last.oob => last.outcome = "IndexError"

\* C7: main calls move only with squares on the grid.
MainPassesGridSquares == last.outcome \in Calls => ~last.oob

\* C8: a call of move whose start square is empty or holds a piece of the
\* colour not on turn is rejected, whatever the end square, and changes
\* nothing; on the initial board (4,4)->(3,4) is rejected.
SourceChecked ==
    [][/\ (last'.outcome \in Calls /\ last'.src \in {"none", Opponent(turn)})
            => (last'.outcome = "Rejected" /\ board' = board /\ turn' = turn)
       /\ moves = 0 =>
             move(board, turn, <<4, 4>>, <<3, 4>>).outcome = "Rejected"]_vars

\* A rejected call for a White piece while Black is to move.
SourceCheckedWitness ==
    /\ last.outcome = "Rejected"
    /\ last.src = "white"
    /\ turn = "black"
    /\ moves = 1

\* The back row as the claim lists it.
StandardBackRow ==
    <<"Rook", "Knight", "Bishop", "Queen", "King", "Bishop", "Knight", "Rook">>

\* The layout of C9, cell by cell.
IsStandardLayout(b) ==
    /\ \A y \in 0..7 :
          /\ b[0][y] # None
          /\ Pieces[b[0][y]].kind = StandardBackRow[y + 1]
          /\ Pieces[b[0][y]].color = "black"
          /\ b[1][y] # None
          /\ Pieces[b[1][y]].kind = "Pawn"
          /\ Pieces[b[1][y]].color = "black"
          /\ \A x \in 2..5 : b[x][y] = None
          /\ b[6][y] # None
          /\ Pieces[b[6][y]].kind = "Pawn"
          /\ Pieces[b[6][y]].color = "white"
          /\ b[7][y] # None
          /\ Pieces[b[7][y]].kind = StandardBackRow[y + 1]
          /\ Pieces[b[7][y]].color = "white"
    /\ \A c \in {"white", "black"} :
          Cardinality({sq \in (0..7) \X (0..7) :
                          /\ b[sq[1]][sq[2]] # None
                          /\ Pieces[b[sq[1]][sq[2]]].color = c}) = 16

\* C9: after a reset the board is the standard layout and White is to
\* move, whatever was played before.
ResetRestoresLayout ==
    last.outcome = "Reset" => (IsStandardLayout(board) /\ turn = "white")

\* A reset after an applied move.
ResetRestoresLayoutWitness == last.outcome = "Reset" /\ last.prior = 1

\* C10: on a fresh board the White pawn move (6,4)->(4,4) is applied and
\* gives the turn to Black, and the Black pawn move (1,3)->(3,3) called
\* next is applied and gives the turn back to White.
OpeningPawnMoves ==
    moves = 0 =>
        LET first == move(board, turn, <<6, 4>>, <<4, 4>>)
            second == move(first.board, first.turn, <<1, 3>>, <<3, 3>>)
        IN  /\ first.outcome = "Applied"
            /\ first.turn = "black"
            /\ second.outcome = "Applied"
            /\ second.turn = "white"

\* The two moves played: the White pawn of file 4 on (4,4), the Black pawn
\* of file 3 on (3,3), White to move.
OpeningPawnMovesWitness ==
    /\ moves = 2
    /\ last.outcome = "Applied"
    /\ last.start = <<1, 3>>
    /\ last.end = <<3, 3>>
    /\ board[4][4] = 21
    /\ board[3][3] = 12
    /\ board[6][4] = None
    /\ board[1][3] = None
    /\ turn = "white"

\* The moves the Pawn rule is to accept: (a) one step forward on the file
\* onto an empty square, (b) two steps forward on the file from the home
\* row over an empty square onto an empty square, (c) one step forward to
\* a neighbouring file onto a piece of the other colour.
PawnAccepts(color, start, end, b) ==
    LET direction == IF color = "white" THEN -1 ELSE 1
        home == IF color = "white" THEN 6 ELSE 1
    IN  \/ /\ end[2] = start[2]
           /\ end[1] = start[1] + direction
           /\ b[end[1]][end[2]] = None
        \/ /\ end[2] = start[2]
           /\ end[1] = start[1] + 2 * direction
           /\ b[end[1]][end[2]] = None
           /\ b[start[1] + direction][start[2]] = None
           /\ start[1] = home
        \/ /\ abs(end[2] - start[2]) = 1
           /\ end[1] = start[1] + direction
           /\ b[end[1]][end[2]] # None
           /\ Pieces[b[end[1]][end[2]]].color = Opponent(color)

\* C11: on every board and for every start and end on the grid, the Pawn
\* rule returns True for exactly the moves (a), (b) and (c) and False for
\* every other.
PawnRuleExact ==
    call.fn = "Pawn.is_valid_move" =>
        call.result = PyBool(PawnAccepts(call.color, call.start, call.end,
                                         board))

\* The rule refusing the two steps of a white pawn from its home row
\* because the square in between is taken.
PawnRuleExactWitness ==
    /\ call.fn = "Pawn.is_valid_move"
    /\ call.color = "white"
    /\ call.start[1] = 6
    /\ call.end = <<4, call.start[2]>>
    /\ board[4][call.start[2]] = None
    /\ board[5][call.start[2]] # None
    /\ call.result = "False"

sgn(n) == IF n > 0 THEN 1 ELSE IF n < 0 THEN -1 ELSE 0

\* The squares strictly between start and end of a move along a row, a
\* column or a diagonal.
Between(start, end) ==
    LET dx == end[1] - start[1]
        dy == end[2] - start[2]
        n == IF abs(dx) > abs(dy) THEN abs(dx) ELSE abs(dy)
    IN  {<<start[1] + i * sgn(dx), start[2] + i * sgn(dy)>> : i \in 1..(n - 1)}

\* C12: an applied move of a Rook, Bishop or Queen has start other than
\* end, runs along a row or column (Rook), a diagonal (Bishop) or either
\* (Queen), and every square strictly between start and end was empty
\* before it; on the initial board the Rook move (7,0)->(7,4) is rejected.
LineMovesUnblocked ==
    [][/\ (moves' = moves + 1
            /\ Pieces[last'.piece].kind \in {"Rook", "Bishop", "Queen"}) =>
              LET kind == Pieces[last'.piece].kind
                  dx == last'.end[1] - last'.start[1]
                  dy == last'.end[2] - last'.start[2]
                  straight == dx = 0 \/ dy = 0
                  diagonal == abs(dx) = abs(dy)
              IN  /\ last'.start # last'.end
                  /\ kind = "Rook" => straight
                  /\ kind = "Bishop" => diagonal
                  /\ kind = "Queen" => (straight \/ diagonal)
                  /\ \A sq \in Between(last'.start, last'.end) :
                        board[sq[1]][sq[2]] = None
       /\ moves = 0 =>
             move(board, turn, <<7, 0>>, <<7, 4>>).outcome = "Rejected"]_vars

\* A Bishop moved two squares along its diagonal.
LineMovesUnblockedWitness ==
    /\ last.outcome = "Applied"
    /\ Pieces[last.piece].kind = "Bishop"
    /\ abs(last.end[1] - last.start[1]) = 2
    /\ board[last.end[1]][last.end[2]] = last.piece

\* C13: with start and end on the grid every rule returns; the while loop
\* of the Rook rule runs at most 6 times, and when it is left by reaching
\* end the rule returns what Rook.is_valid_move returns.
RulesReturn ==
    /\ [](call.fn = "Rook.is_valid_move" =>
            /\ call.steps <= 6
            /\ call.result # "running" =>
                  call.result = Rook_is_valid_move(
                                    Piece("Rook", "R", call.color),
                                    call.start, call.end, board))
    /\ (call.fn # "none") ~> (call.fn # "none" /\ call.result # "running")

\* The loop of the Rook rule has walked the six squares between the ends
\* of an empty row and the rule has returned True.
RulesReturnWitness ==
    /\ call.fn = "Rook.is_valid_move"
    /\ call.steps = 6
    /\ <<call.x, call.y>> = call.end
    /\ call.result = "True"

\* The cells of b that hold the object id.
CellsOf(b, id) == {sq \in Grid : b[sq[1]][sq[2]] = id}

\* The objects that stand on b.
Held(b) == {b[sq[1]][sq[2]] : sq \in Grid} \ {None}

\* C14: whatever calls of move were made, every cell is empty or holds
\* one of the 32 objects create_board made (with the kind and colour it
\* was made with), and no object stands on two cells: there are as many
\* cells taken as objects on the board.
PiecesMovedNotCopied ==
    /\ Held(board) \subseteq DOMAIN Pieces
    /\ Cardinality(Held(board)) = PieceCount(board)

\* A piece has landed on a taken cell: it stands there and nowhere else,
\* and the object that stood there is on no cell.
PiecesMovedNotCopiedWitness ==
    /\ last.outcome = "Applied"
    /\ last.captured # None
    /\ last.captured # last.piece
    /\ CellsOf(board, last.piece) = {<<Norm(last.end[1]), Norm(last.end[2])>>}
    /\ CellsOf(board, last.captured) = {}

\* The cell b holds a pawn of the colour.
IsPawnOf(b, x, y, color) ==
    /\ b[x][y] # None
    /\ Pieces[b[x][y]].kind = "Pawn"
    /\ Pieces[b[x][y]].color = color

\* C15: with calls of move on squares of the grid, no applied move (only
\* those change the board) leaves a White pawn on row 7 or a Black pawn
\* on row 0; an applied pawn move lowers the row of a White pawn and
\* raises that of a Black pawn; a pawn on its home row stands on the cell
\* create_board put it on, and a pawn moved two steps was taken from that
\* cell (so it had not moved before).
PawnsOnlyAdvance ==
    [][moves' = moves + 1 =>
          /\ \A y \in 0..7 :
                /\ ~IsPawnOf(board', 7, y, "white")
                /\ ~IsPawnOf(board', 0, y, "black")
                /\ IsPawnOf(board', 6, y, "white") =>
                      board'[6][y] = create_board[6][y]
                /\ IsPawnOf(board', 1, y, "black") =>
                      board'[1][y] = create_board[1][y]
          /\ Pieces[last'.piece].kind = "Pawn" =>
                /\ Pieces[last'.piece].color = "white" =>
                      last'.end[1] < last'.start[1]
                /\ Pieces[last'.piece].color = "black" =>
                      last'.end[1] > last'.start[1]
                /\ abs(last'.end[1] - last'.start[1]) = 2 =>
                      create_board[last'.start[1]][last'.start[2]]
                          = last'.piece]_vars

\* A White pawn that had left its home row has moved again.
PawnsOnlyAdvanceWitness ==
    /\ last.outcome = "Applied"
    /\ last.piece # None
    /\ Pieces[last.piece].kind = "Pawn"
    /\ Pieces[last.piece].color = "white"
    /\ last.start[1] = 4
    /\ last.end[1] = 3
    /\ board[last.end[1]][last.end[2]] = last.piece

\* The index of the first occurrence of v in the list s.
FirstIndex(s, v) == CHOOSE i \in 1..Len(s) :
                        s[i] = v /\ \A j \in 1..(i - 1) : s[j] # v

\* C16: the list unique_elements returns holds no value twice, holds the
\* values of its argument and no other, in the order of their first
\* occurrence in the argument; called with a list it returned it returns
\* an equal list; the argument is as it was passed.
UniqueElementsExact ==
    call.fn = "unique_elements" =>
        LET u == call.unique
            a == call.given
        IN  /\ \A i, j \in 1..Len(u) : i # j => u[i] # u[j]
            /\ {u[i] : i \in 1..Len(u)} = {a[i] : i \in 1..Len(a)}
            /\ \A i, j \in 1..Len(u) :
                  i < j => FirstIndex(a, u[i]) < FirstIndex(a, u[j])
            /\ call.again => u = a
            /\ call.arr = a

\* A list of four values, two of them repeated, the larger one first.
UniqueElementsExactWitness ==
    /\ call.fn = "unique_elements"
    /\ ~call.again
    /\ Len(call.given) = 4
    /\ Len(call.unique) = 2
    /\ call.unique[1] > call.unique[2]
    /\ call.given[4] = call.unique[1]

====
